---- MODULE Spec2Model ----
(***************************************************************************)
(* Huovilainen Moog ladder filter kernel (huovilainenFilterKernel.c):      *)
(* the control surface (setters, envelope triggers), the envelope state    *)
(* machine advanced by updateEnvelope, and the per-block filter() step.    *)
(*                                                                         *)
(* Numbers.  A C float/double is modelled as a record                      *)
(*     [k |-> "fin" | "nan" | "pinf" | "ninf", n |-> Int, d |-> Nat \ {0}] *)
(* i.e. an exact rational n/d in lowest terms, or one of the IEEE-754      *)
(* special values.  Division by zero and operations on the specials follow *)
(* IEEE-754; rounding of finite results and the sign of zero are not       *)
(* modelled (finite arithmetic is exact).                                  *)
(*                                                                         *)
(* Audio samples and the ladder's internal cells are modelled by whether   *)
(* they are exactly 0.0 (Z) or not known to be zero (U); tanh and exp are  *)
(* never evaluated.  The derived coefficients tune, acr and resQuad are    *)
(* kept as the terms they were computed from (the clamped normalised       *)
(* frequency fc and the live resonance).                                   *)
(***************************************************************************)
EXTENDS Integers, Sequences, FiniteSets, TLC

(* ------------------------------ bounds -------------------------------- *)
\* largest host clock value passed to updateEnvelope
MaxTime == 3
\* largest number of filter() calls in one behaviour
MaxBlocks == 2
\* largest number of calls in one behaviour of Spec
MaxCalls == 5

\* samples of a block the model's sample loop runs over (the kernel's
\* frame size is 128; with samples abstracted to zero / not known
\* zero every sample after the second repeats the one before it)
MaxFrame == 3

(* ------------------------- program constants -------------------------- *)
SAMPLE_RATE == 44100

(* --------------------------- float arithmetic ------------------------- *)
RECURSIVE Gcd(_, _)
Gcd(a, b) == IF b = 0 THEN a ELSE Gcd(b, a % b)

Abs(x) == IF x < 0 THEN -x ELSE x

\* the finite value n/d (d # 0), in lowest terms with a positive denominator
F(n, d) ==
    LET g == Gcd(Abs(n), Abs(d))
        s == IF d < 0 THEN -1 ELSE 1
    IN  [k |-> "fin", n |-> s * (n \div g), d |-> s * (d \div g)]

NaN  == [k |-> "nan",  n |-> 0, d |-> 1]
PInf == [k |-> "pinf", n |-> 0, d |-> 1]
NInf == [k |-> "ninf", n |-> 0, d |-> 1]

IsFinite(x) == x.k = "fin"
IsNaN(x)    == x.k = "nan"

\* sign of a non-NaN value: -1, 0 or 1
Sgn(x) ==
    CASE x.k = "pinf" -> 1
      [] x.k = "ninf" -> -1
      [] OTHER        -> IF x.n > 0 THEN 1 ELSE IF x.n < 0 THEN -1 ELSE 0

InfOfSign(s) == IF s > 0 THEN PInf ELSE NInf

FNeg(x) ==
    CASE x.k = "fin"  -> F(-x.n, x.d)
      [] x.k = "pinf" -> NInf
      [] x.k = "ninf" -> PInf
      [] OTHER        -> NaN

FAdd(x, y) ==
    CASE IsNaN(x) \/ IsNaN(y)           -> NaN
      [] IsFinite(x) /\ IsFinite(y)     -> F(x.n * y.d + y.n * x.d, x.d * y.d)
      [] IsFinite(x)                    -> y
      [] IsFinite(y)                    -> x
      [] OTHER                          -> IF x.k = y.k THEN x ELSE NaN

FSub(x, y) == FAdd(x, FNeg(y))

FMul(x, y) ==
    CASE IsNaN(x) \/ IsNaN(y)           -> NaN
      [] IsFinite(x) /\ IsFinite(y)     -> F(x.n * y.n, x.d * y.d)
      [] Sgn(x) = 0 \/ Sgn(y) = 0       -> NaN
      [] OTHER                          -> InfOfSign(Sgn(x) * Sgn(y))

\* IEEE division; the divisor zero is +0.0
FDiv(x, y) ==
    CASE IsNaN(x) \/ IsNaN(y)           -> NaN
      [] IsFinite(x) /\ IsFinite(y)     ->
            IF y.n # 0 THEN F(x.n * y.d, x.d * y.n)
            ELSE IF x.n = 0 THEN NaN ELSE InfOfSign(Sgn(x))
      [] IsFinite(x)                    -> F(0, 1)
      [] IsFinite(y)                    -> InfOfSign(Sgn(x) * (IF Sgn(y) < 0 THEN -1 ELSE 1))
      [] OTHER                          -> NaN

\* x >= y as C evaluates it: false whenever an operand is NaN
FGe(x, y) ==
    CASE IsNaN(x) \/ IsNaN(y)           -> FALSE
      [] IsFinite(x) /\ IsFinite(y)     -> x.n * y.d >= y.n * x.d
      [] x.k = "pinf"                   -> TRUE
      [] y.k = "ninf"                   -> TRUE
      [] OTHER                          -> FALSE

FLe(x, y) == FGe(y, x)

\* C fmin: the other operand when one is NaN
FMin(x, y) ==
    CASE IsNaN(x) -> y
      [] IsNaN(y) -> x
      [] OTHER    -> IF FGe(y, x) THEN x ELSE y

I(n) == F(n, 1)

(* ----------------------------- sample taint --------------------------- *)
Z == "zero"
U == "any"
\* a sum or difference is exactly zero when both operands are
TJoin(a, b) == IF a = Z /\ b = Z THEN Z ELSE U
\* a product with a finite factor is exactly zero when one operand is
TMul(a, b)  == IF a = Z \/ b = Z THEN Z ELSE U

(* -------------------------------- state ------------------------------- *)
VARIABLES
    inputBuffer, outputBuffer,              \* lines 16-17
    stage, stageTanh, delay,                \* lines 20-22
    tune, acr, resQuad,                     \* lines 26-28
    cutoff, resonance,                      \* lines 29-30 (live values)
    targetCutoff, targetResonance,          \* lines 33-34
    cutoffSmoothing, resonanceSmoothing,    \* lines 35-36
    dcBlockInput, dcBlockOutput,            \* lines 39-40
    manualCutoff, envelopeCutoff, envelopeActive,               \* lines 44-46
    envelopeStartCutoff, envelopeTargetCutoff,                  \* lines 49-50
    envelopeStartTime, envelopeDuration,                        \* lines 51-52
    envelopeDecayTime, envelopeSustainLevel,                    \* lines 53-54
    envelopePhase, currentTime,                                 \* lines 55-56
    lastOp,         \* history: the exported function called last, with its arguments
    lastSetCutoff,  \* history: the argument of the most recent setCutoff call
    nBlocks,        \* history: number of filter() calls so far
    nCalls          \* history: number of calls so far, counted by Spec only

bufVars    == <<inputBuffer, outputBuffer>>
ladderVars == <<stage, stageTanh, delay>>
coefVars   == <<tune, acr, resQuad>>
liveVars   == <<cutoff, resonance>>
smoothVars == <<cutoffSmoothing, resonanceSmoothing>>
dcVars     == <<dcBlockInput, dcBlockOutput>>
timingVars == <<envelopeStartCutoff, envelopeTargetCutoff, envelopeStartTime,
                envelopeDuration>>
vars == <<inputBuffer, outputBuffer, stage, stageTanh, delay, tune, acr, resQuad,
          cutoff, resonance, targetCutoff, targetResonance, cutoffSmoothing,
          resonanceSmoothing, dcBlockInput, dcBlockOutput, manualCutoff,
          envelopeCutoff, envelopeActive, envelopeStartCutoff,
          envelopeTargetCutoff, envelopeStartTime, envelopeDuration,
          envelopeDecayTime, envelopeSustainLevel, envelopePhase, currentTime,
          lastOp, lastSetCutoff, nBlocks, nCalls>>

(* ------------------------- values the host passes ---------------------- *)
CutoffArgs     == {I(3000)}
\* a request far above 0.45 * SAMPLE_RATE, offered by Spec only
HighCutoffArgs == {I(400000)}
EnvCutoffArgs  == {I(700)}
ResonanceArgs  == {F(1, 2)}
StartArgs      == {I(200)}
PeakArgs       == {I(2000)}
DurationArgs   == {I(0), I(2)}
SustainArgs    == {I(0), I(1)}
ReleaseArgs    == {I(500)}
ReleaseTimes   == {I(2)}
Times          == {I(t) : t \in 0..MaxTime}

Silence == [i \in 1..MaxFrame |-> Z]
Signal  == [i \in 1..MaxFrame |-> U]
\* a block whose first half carries signal and whose second half is silent
Burst   == [i \in 1..MaxFrame |->
                IF 2 * i <= MaxFrame THEN U ELSE Z]
Blocks  == {Silence, Signal, Burst}

(* --------------------------- coefficient mapper ------------------------ *)
\* a mapper without the clamp of line 175
NormalisedFc_Unclamped(cut) == FDiv(cut, I(SAMPLE_RATE))

\* fc as computed at lines 171-175
NormalisedFc(cut) == FMin(FDiv(cut, I(SAMPLE_RATE)), F(45, 100))

\* what updateFilterCoefficients writes, as terms over fc and resonance
CoefficientsOf(cut, res) ==
    LET fc == NormalisedFc(cut)
    IN  [tune    |-> [k |-> "coef", fc |-> fc],
         acr     |-> [k |-> "coef", fc |-> fc],
         resQuad |-> [k |-> "coef", fc |-> fc, res |-> res]]

\* zero-initialised static double (lines 26-28)
StaticZeroCoef == [k |-> "zero", fc |-> I(0)]
StaticZeroRes  == [k |-> "zero", fc |-> I(0), res |-> I(0)]

updateFilterCoefficients ==
    LET c == CoefficientsOf(cutoff, resonance)
    IN  /\ tune' = c.tune
        /\ acr' = c.acr
        /\ resQuad' = c.resQuad

(* --------------------------------- Init -------------------------------- *)
\* the static initialisers: the state of a freshly loaded instance
Init ==
    /\ inputBuffer = Silence
    /\ outputBuffer = Silence
    /\ stage = <<Z, Z, Z, Z>>
    /\ stageTanh = <<Z, Z, Z>>
    /\ delay = <<Z, Z, Z, Z, Z, Z>>
    /\ tune = StaticZeroCoef
    /\ acr = StaticZeroCoef
    /\ resQuad = StaticZeroRes
    /\ cutoff = I(1000)
    /\ resonance = F(1, 10)
    /\ targetCutoff = I(1000)
    /\ targetResonance = F(1, 10)
    /\ cutoffSmoothing = F(1, 10)
    /\ resonanceSmoothing = F(1, 10)
    /\ dcBlockInput = Z
    /\ dcBlockOutput = Z
    /\ manualCutoff = I(1000)
    /\ envelopeCutoff = I(1000)
    /\ envelopeActive = 0
    /\ envelopeStartCutoff = I(1000)
    /\ envelopeTargetCutoff = I(1000)
    /\ envelopeStartTime = I(0)
    /\ envelopeDuration = I(0)
    /\ envelopeDecayTime = F(1, 2)
    /\ envelopeSustainLevel = F(1, 2)
    /\ envelopePhase = 0
    /\ currentTime = I(0)
    /\ lastOp = [op |-> "load", args |-> <<>>]
    /\ lastSetCutoff = I(1000)
    /\ nBlocks = 0
    /\ nCalls = 0

Called(name, arguments) == lastOp' = [op |-> name, args |-> arguments]

(* ------------------------------- setters ------------------------------- *)
\* the host fills the input buffer through inputBufferPtr()
writeInput(block) ==
    /\ inputBuffer' = block
    /\ Called("writeInput", <<>>)
    /\ UNCHANGED <<outputBuffer, ladderVars, coefVars, liveVars, targetCutoff,
                   targetResonance, smoothVars, dcVars, manualCutoff,
                   envelopeCutoff, envelopeActive, timingVars, envelopeDecayTime,
                   envelopeSustainLevel, envelopePhase, currentTime, nBlocks, lastSetCutoff>>

\* a kernel whose setCutoff ignores the envelope
ManualApplies_Always == TRUE

\* line 79: whether a manual cutoff reaches the target
ManualApplies == envelopeActive = 0

setCutoff(c) ==
    /\ manualCutoff' = c
    /\ IF ManualApplies
         THEN targetCutoff' = c /\ updateFilterCoefficients
         ELSE UNCHANGED <<targetCutoff, coefVars>>
    /\ Called("setCutoff", <<c>>)
    /\ lastSetCutoff' = c
    /\ UNCHANGED <<bufVars, ladderVars, liveVars, targetResonance, smoothVars,
                   dcVars, envelopeCutoff, envelopeActive, timingVars,
                   envelopeDecayTime, envelopeSustainLevel, envelopePhase,
                   currentTime, nBlocks>>

setResonance(r) ==
    /\ targetResonance' = r
    /\ updateFilterCoefficients
    /\ Called("setResonance", <<r>>)
    /\ UNCHANGED <<bufVars, ladderVars, liveVars, targetCutoff, smoothVars,
                   dcVars, manualCutoff, envelopeCutoff, envelopeActive,
                   timingVars, envelopeDecayTime, envelopeSustainLevel,
                   envelopePhase, currentTime, nBlocks, lastSetCutoff>>

\* a kernel that keeps the envelope's cutoff when the envelope is switched off
DeactivatedTarget_Envelope == envelopeCutoff

\* the target cutoff setEnvelopeActive(0) restores (line 95)
DeactivatedTarget == manualCutoff

\* a deactivation that leaves the phase as it is
DeactivatedPhase_Kept == envelopePhase

\* the phase setEnvelopeActive(0) leaves (line 96)
DeactivatedPhase == 0

setEnvelopeActive(active) ==
    /\ envelopeActive' = active
    /\ IF active = 0
         THEN /\ targetCutoff' = DeactivatedTarget
              /\ envelopePhase' = DeactivatedPhase
              /\ updateFilterCoefficients
         ELSE UNCHANGED <<targetCutoff, envelopePhase, coefVars>>
    /\ Called("setEnvelopeActive", <<active>>)
    /\ UNCHANGED <<bufVars, ladderVars, liveVars, targetResonance, smoothVars,
                   dcVars, manualCutoff, envelopeCutoff, timingVars,
                   envelopeDecayTime, envelopeSustainLevel, currentTime, nBlocks, lastSetCutoff>>

setEnvelopeCutoff(c) ==
    /\ envelopeCutoff' = c
    /\ IF envelopeActive # 0
         THEN targetCutoff' = c /\ updateFilterCoefficients
         ELSE UNCHANGED <<targetCutoff, coefVars>>
    /\ Called("setEnvelopeCutoff", <<c>>)
    /\ UNCHANGED <<bufVars, ladderVars, liveVars, targetResonance, smoothVars,
                   dcVars, manualCutoff, envelopeActive, timingVars,
                   envelopeDecayTime, envelopeSustainLevel, envelopePhase,
                   currentTime, nBlocks, lastSetCutoff>>

\* a kernel whose decay-time setter also retimes the segment in progress
setEnvelopeDecayTime_Live(decayTime) ==
    /\ envelopeDecayTime' = decayTime
    /\ envelopeDuration' = decayTime
    /\ Called("setEnvelopeDecayTime", <<decayTime>>)
    /\ UNCHANGED <<bufVars, ladderVars, coefVars, liveVars, targetCutoff,
                   targetResonance, smoothVars, dcVars, manualCutoff,
                   envelopeCutoff, envelopeActive, envelopeStartCutoff,
                   envelopeTargetCutoff, envelopeStartTime,
                   envelopeSustainLevel, envelopePhase, currentTime, nBlocks,
                   lastSetCutoff>>

setEnvelopeDecayTime(decayTime) ==
    /\ envelopeDecayTime' = decayTime
    /\ Called("setEnvelopeDecayTime", <<decayTime>>)
    /\ UNCHANGED <<bufVars, ladderVars, coefVars, liveVars, targetCutoff,
                   targetResonance, smoothVars, dcVars, manualCutoff,
                   envelopeCutoff, envelopeActive, timingVars,
                   envelopeSustainLevel, envelopePhase, currentTime, nBlocks, lastSetCutoff>>

setEnvelopeSustainLevel(sustainLevel) ==
    /\ envelopeSustainLevel' = sustainLevel
    /\ Called("setEnvelopeSustainLevel", <<sustainLevel>>)
    /\ UNCHANGED <<bufVars, ladderVars, coefVars, liveVars, targetCutoff,
                   targetResonance, smoothVars, dcVars, manualCutoff,
                   envelopeCutoff, envelopeActive, timingVars,
                   envelopeDecayTime, envelopePhase, currentTime, nBlocks, lastSetCutoff>>

\* an attack that aims at the requested peak itself
AttackTarget_Undoubled(peakCutoff) == peakCutoff

\* the attack target (line 123)
AttackTarget(peakCutoff) == FMul(peakCutoff, I(2))

setEnvelopeAttack(startCutoff, peakCutoff, attackTime) ==
    /\ envelopeStartCutoff' = startCutoff
    /\ envelopeTargetCutoff' = AttackTarget(peakCutoff)
    /\ envelopeStartTime' = currentTime
    /\ envelopeDuration' = attackTime
    /\ envelopePhase' = 1
    /\ envelopeActive' = 1
    /\ Called("setEnvelopeAttack", <<startCutoff, peakCutoff, attackTime>>)
    /\ UNCHANGED <<bufVars, ladderVars, coefVars, liveVars, targetCutoff,
                   targetResonance, smoothVars, dcVars, manualCutoff,
                   envelopeCutoff, envelopeDecayTime, envelopeSustainLevel,
                   currentTime, nBlocks, lastSetCutoff>>

\* the phase tag setEnvelopeRelease leaves (line 136)
ReleasePhase == 0

setEnvelopeRelease(target, releaseTime) ==
    /\ envelopeStartCutoff' = envelopeCutoff
    /\ envelopeTargetCutoff' = target
    /\ envelopeStartTime' = currentTime
    /\ envelopeDuration' = releaseTime
    /\ envelopePhase' = ReleasePhase
    /\ Called("setEnvelopeRelease", <<target, releaseTime>>)
    /\ UNCHANGED <<bufVars, ladderVars, coefVars, liveVars, targetCutoff,
                   targetResonance, smoothVars, dcVars, manualCutoff,
                   envelopeCutoff, envelopeActive, envelopeDecayTime,
                   envelopeSustainLevel, currentTime, nBlocks, lastSetCutoff>>

(* ------------------------------ envelope ------------------------------- *)
\* lines 145-146
Progress(time) == FDiv(FSub(time, envelopeStartTime), envelopeDuration)

\* a kernel that ends a phase on every call
PhaseComplete_Always(progress) == TRUE

\* line 148
PhaseComplete(progress) == FGe(progress, I(1))

\* a decay target scaled by the sustain level instead of its complement
SustainCutoff_Scaled(start, manual, sustainLevel) ==
    FAdd(start, FMul(FSub(manual, start), sustainLevel))

\* line 151
SustainCutoff(start, manual, sustainLevel) ==
    FAdd(start, FMul(FSub(manual, start), FSub(I(1), sustainLevel)))

\* line 164
Interpolate(start, target, progress) ==
    FAdd(start, FMul(FSub(target, start), progress))

\* a kernel without the early return of lines 158-160
HeldReturns_Missing(phase, done) == FALSE

\* lines 158-160: the early return of a finished envelope
HeldReturns(phase, done) == done /\ phase = 3

\* a kernel without the early return of line 143
IdleReturns_Missing == FALSE

\* line 143: nothing to update while the envelope is Idle
IdleReturns == envelopePhase = 0

updateEnvelope(time) ==
    /\ currentTime' = time
    /\ Called("updateEnvelope", <<time>>)
    /\ UNCHANGED <<bufVars, ladderVars, liveVars, targetResonance, smoothVars,
                   dcVars, manualCutoff, envelopeActive, envelopeDecayTime,
                   envelopeSustainLevel, nBlocks, lastSetCutoff>>
    /\ IF IdleReturns
         THEN UNCHANGED <<timingVars, envelopePhase, envelopeCutoff,
                          targetCutoff, coefVars>>
         ELSE
           LET progress == Progress(time)
               done     == PhaseComplete(progress)
               toDecay  == done /\ envelopePhase = 1
               start    == IF toDecay THEN envelopeTargetCutoff
                                      ELSE envelopeStartCutoff
               target   == IF toDecay
                             THEN SustainCutoff(start, manualCutoff,
                                                envelopeSustainLevel)
                             ELSE envelopeTargetCutoff
               p        == IF done THEN I(1) ELSE progress
           IN  IF HeldReturns(envelopePhase, done)
                 THEN UNCHANGED <<timingVars, envelopePhase, envelopeCutoff,
                                  targetCutoff, coefVars>>
                 ELSE
                   /\ envelopeStartCutoff' = start
                   /\ envelopeTargetCutoff' = target
                   /\ envelopeStartTime' = IF toDecay THEN time
                                                      ELSE envelopeStartTime
                   /\ envelopeDuration' = IF toDecay THEN envelopeDecayTime
                                                     ELSE envelopeDuration
                   /\ envelopePhase' = IF toDecay THEN 2
                                       ELSE IF done /\ envelopePhase = 2 THEN 3
                                       ELSE envelopePhase
                   /\ envelopeCutoff' = Interpolate(start, target, p)
                   /\ targetCutoff' = Interpolate(start, target, p)
                   /\ updateFilterCoefficients

(* --------------------------------- init -------------------------------- *)
init ==
    /\ stage' = <<Z, Z, Z, Z>>
    /\ delay' = <<Z, Z, Z, Z, Z, Z>>
    /\ stageTanh' = <<Z, Z, Z>>
    \* setCutoff(1000.0f), line 196, with the envelopeActive of the caller
    /\ IF ManualApplies THEN targetCutoff' = I(1000)
                        ELSE UNCHANGED targetCutoff
    /\ lastSetCutoff' = I(1000)
    /\ targetResonance' = F(1, 10)
    /\ updateFilterCoefficients
    /\ manualCutoff' = I(1000)
    /\ envelopeCutoff' = I(1000)
    /\ envelopeActive' = 0
    /\ envelopePhase' = 0
    /\ currentTime' = I(0)
    /\ envelopeSustainLevel' = F(1, 2)
    /\ cutoffSmoothing' = F(1, 10)
    /\ resonanceSmoothing' = F(1, 10)
    /\ Called("init", <<>>)
    /\ UNCHANGED <<bufVars, liveVars, dcVars, timingVars, envelopeDecayTime,
                   nBlocks>>

(* -------------------------------- filter ------------------------------- *)
\* a kernel that runs the smoothing step twice per block
smoothParameter_Twice(current, target, smoothing) ==
    LET once == FAdd(current, FMul(FSub(target, current), smoothing))
    IN  FAdd(once, FMul(FSub(target, once), smoothing))

\* line 211
smoothParameter(current, target, smoothing) ==
    FAdd(current, FMul(FSub(target, current), smoothing))

\* a saturator with an offset: its value at 0 is not 0
enhanced_tanh_Offset(x) == U

\* lines 215-243 on the zero / not-known-zero abstraction
enhanced_tanh(x) ==
    LET basic_tanh     == x          \* tanh(0) = 0
        asymmetry      == U          \* 1.0f or 0.98f
        abs_x          == x
        input_scale    == abs_x      \* abs_x / (1 + abs_x)
        freq_scale     == U          \* 1 / (1 + 2 * input_scale) > 0
        harmonic_boost == U          \* 1 + 0.015 * ... >= 1
        even_harmonic  == TMul(TMul(x, input_scale), freq_scale)
        third_harmonic == TMul(TMul(TMul(x, input_scale), input_scale), freq_scale)
        intermod       == TMul(TMul(x, input_scale), freq_scale)
    IN  TJoin(TJoin(TJoin(TMul(TMul(asymmetry, basic_tanh), harmonic_boost),
                          even_harmonic), third_harmonic), intermod)

\* a coefficient is exactly zero only while it still holds its static 0.0
CoefTaint(c) == IF c.k = "zero" THEN Z ELSE U

\* lines 265-287: one oversampling sub-step on the ladder state
\* s = [stage, stageTanh, delay]; thermal = 0.000025 is nonzero
SubStep(s, dcBlockedInput, tn, rq) ==
    LET input_sample == TJoin(dcBlockedInput, TMul(rq, s.delay[6]))
        st0 == TJoin(s.delay[1],
                     TMul(tn, TJoin(enhanced_tanh(input_sample), s.stageTanh[1])))
        th0 == enhanced_tanh(st0)
        st1 == TJoin(s.delay[2], TMul(tn, TJoin(th0, s.stageTanh[2])))
        th1 == enhanced_tanh(st1)
        st2 == TJoin(s.delay[3], TMul(tn, TJoin(th1, s.stageTanh[3])))
        th2 == enhanced_tanh(st2)
        st3 == TJoin(s.delay[4],
                     TMul(tn, TJoin(th2, enhanced_tanh(s.delay[4]))))
        d5  == TJoin(st3, s.delay[5])
    IN  [stage     |-> <<st0, st1, st2, st3>>,
         stageTanh |-> <<th0, th1, th2>>,
         delay     |-> <<st0, st1, st2, st3, st3, d5>>]

\* lines 257-290: the body of the sample loop for sample i
\* b = [s (ladder state), dcIn, dcOut, out (output buffer)]
ProcessSample(i, b, inp, tn, rq) ==
    LET input          == inp[i]
        dcBlockedInput == TJoin(TJoin(input, b.dcIn), b.dcOut)
        s1             == SubStep(b.s, dcBlockedInput, tn, rq)
        s2             == SubStep(s1, dcBlockedInput, tn, rq)
    IN  [s     |-> s2,
         dcIn  |-> input,
         dcOut |-> dcBlockedInput,
         out   |-> [b.out EXCEPT ![i] = s2.delay[6]]]

\* line 256: samples lo..hi in increasing order (split in halves to keep
\* the evaluation shallow)
RECURSIVE ProcessRange(_, _, _, _, _, _)
ProcessRange(lo, hi, b, inp, tn, rq) ==
    IF lo > hi THEN b
    ELSE IF lo = hi THEN ProcessSample(lo, b, inp, tn, rq)
    ELSE LET mid   == (lo + hi) \div 2
             first == ProcessRange(lo, mid, b, inp, tn, rq)
         IN  \* the test only makes the first half be evaluated first
             IF first.dcIn \in {Z, U}
               THEN ProcessRange(mid + 1, hi, first, inp, tn, rq)
               ELSE first

\* a kernel that maps the coefficients before it smooths the parameters
FilterCoefficients_Stale == CoefficientsOf(cutoff, resonance)

\* line 253: updateFilterCoefficients() on the values smoothed at 249-250
FilterCoefficients == CoefficientsOf(cutoff', resonance')

filter ==
    /\ nBlocks < MaxBlocks
    /\ nBlocks' = nBlocks + 1
    /\ cutoff' = smoothParameter(cutoff, targetCutoff, cutoffSmoothing)
    /\ resonance' = smoothParameter(resonance, targetResonance, resonanceSmoothing)
    /\ LET c == FilterCoefficients
           b == ProcessRange(1, MaxFrame,
                    [s     |-> [stage |-> stage, stageTanh |-> stageTanh,
                                delay |-> delay],
                     dcIn  |-> dcBlockInput,
                     dcOut |-> dcBlockOutput,
                     out   |-> outputBuffer],
                    inputBuffer, CoefTaint(c.tune), CoefTaint(c.resQuad))
       IN  /\ tune' = c.tune
           /\ acr' = c.acr
           /\ resQuad' = c.resQuad
           /\ stage' = b.s.stage
           /\ stageTanh' = b.s.stageTanh
           /\ delay' = b.s.delay
           /\ dcBlockInput' = b.dcIn
           /\ dcBlockOutput' = b.dcOut
           /\ outputBuffer' = b.out
    /\ Called("filter", <<>>)
    /\ UNCHANGED <<inputBuffer, targetCutoff, targetResonance, smoothVars,
                   manualCutoff, envelopeCutoff, envelopeActive, timingVars,
                   envelopeDecayTime, envelopeSustainLevel, envelopePhase,
                   currentTime, lastSetCutoff>>

(* ------------------------------ behaviours ----------------------------- *)
\* the host clock is monotonic: the times it may pass to updateEnvelope next
ClockTimes == {t \in Times : FGe(t, currentTime)}

\* The exported functions are explored in three specifications over the
\* same state: SpecControl drives the envelope to any depth and never runs
\* filter(); SpecAudio runs filter() under manual and envelope control of
\* the target but without the timed envelope segments; Spec offers every
\* exported function in every state, in behaviours of at most MaxCalls
\* calls.

\* the control surface and the envelope, without audio processing
NextControl ==
    \/ \E c \in CutoffArgs : setCutoff(c)
    \/ \E a \in {0, 1} : setEnvelopeActive(a)
    \/ \E c \in EnvCutoffArgs : setEnvelopeCutoff(c)
    \/ \E d \in DurationArgs : setEnvelopeDecayTime(d)
    \/ \E l \in SustainArgs : setEnvelopeSustainLevel(l)
    \/ \E st \in StartArgs, pk \in PeakArgs, at \in DurationArgs :
          setEnvelopeAttack(st, pk, at)
    \/ \E tg \in ReleaseArgs, rt \in ReleaseTimes : setEnvelopeRelease(tg, rt)
    \/ \E t \in ClockTimes : updateEnvelope(t)
    \/ init

UncountedControl == NextControl /\ UNCHANGED nCalls

SpecControl == Init /\ [][UncountedControl]_vars

\* audio processing under manual and envelope control of the cutoff target
NextAudio ==
    \/ \E block \in Blocks : writeInput(block)
    \/ \E c \in CutoffArgs : setCutoff(c)
    \/ \E r \in ResonanceArgs : setResonance(r)
    \/ \E a \in {0, 1} : setEnvelopeActive(a)
    \/ \E c \in EnvCutoffArgs : setEnvelopeCutoff(c)
    \/ init
    \/ filter

UncountedAudio == NextAudio /\ UNCHANGED nCalls

SpecAudio == Init /\ [][UncountedAudio]_vars

\* the whole kernel: every exported function, any order
Next ==
    \/ \E block \in Blocks : writeInput(block)
    \/ \E c \in CutoffArgs \cup HighCutoffArgs : setCutoff(c)
    \/ \E r \in ResonanceArgs : setResonance(r)
    \/ \E a \in {0, 1} : setEnvelopeActive(a)
    \/ \E c \in EnvCutoffArgs : setEnvelopeCutoff(c)
    \/ \E d \in DurationArgs : setEnvelopeDecayTime(d)
    \/ \E l \in SustainArgs : setEnvelopeSustainLevel(l)
    \/ \E st \in StartArgs, pk \in PeakArgs, at \in DurationArgs :
          setEnvelopeAttack(st, pk, at)
    \/ \E tg \in ReleaseArgs, rt \in ReleaseTimes : setEnvelopeRelease(tg, rt)
    \/ \E t \in ClockTimes : updateEnvelope(t)
    \/ init
    \/ filter

CountedNext == nCalls < MaxCalls /\ nCalls' = nCalls + 1 /\ Next

Spec == Init /\ [][CountedNext]_vars

(* ======================================================================= *)
(*                                 Claims                                   *)
(* ======================================================================= *)
\* the step is a call of the named exported function
IsCall(name) == lastOp'.op = name

FAbs(x) == IF Sgn(x) < 0 THEN FNeg(x) ELSE x

(* ---------------------------------- C1 --------------------------------- *)
\* C1: after setEnvelopeAttack(start, peak, T) with start <= 2*peak and
\* T > 0, every updateEnvelope call made while the phase is Attack leaves
\* envelopeCutoff and targetCutoff at least as large as the call before it
\* left them, and the call that completes the attack (progress >= 1, phase
\* becomes Decay) leaves both equal to the attack target 2*peak.
C1_AttackRisesToPeak ==
    [][ ( /\ IsCall("updateEnvelope")
          /\ envelopePhase = 1
          /\ FLe(envelopeStartCutoff, envelopeTargetCutoff)
          /\ FGe(envelopeDuration, I(1)) )
        => /\ lastOp.op = "updateEnvelope"
              => /\ FGe(envelopeCutoff', envelopeCutoff)
                 /\ FGe(targetCutoff', targetCutoff)
           /\ envelopePhase' = 2
              => /\ envelopeCutoff' = envelopeTargetCutoff
                 /\ targetCutoff' = envelopeTargetCutoff ]_vars

(* ---------------------------------- C2 --------------------------------- *)
\* C2: after setEnvelopeRelease(target, T) with T > 0 on an active
\* envelope, an updateEnvelope call whose time is at least T past the
\* release leaves targetCutoff (and envelopeCutoff) equal to target.
C2_ReleaseReachesTarget ==
    [][ ( /\ IsCall("updateEnvelope")
          /\ lastOp.op = "setEnvelopeRelease"
          /\ envelopeActive = 1
          /\ FGe(lastOp.args[2], I(1))
          /\ FGe(FSub(currentTime', envelopeStartTime), lastOp.args[2]) )
        => /\ targetCutoff' = lastOp.args[1]
           /\ envelopeCutoff' = lastOp.args[1] ]_vars

(* ---------------------------------- C3 --------------------------------- *)
\* C3: from the updateEnvelope call that enters Decay on, with a positive
\* decay time and a decay target different from the attack target,
\* envelopeCutoff equals the decay target only when the time since Decay
\* began is at least the decay time, and a call made in Decay right after
\* another updateEnvelope call never leaves envelopeCutoff farther from the
\* decay target than it was.
C3_DecayApproachesTarget ==
    [][ ( /\ IsCall("updateEnvelope")
          /\ envelopePhase' \in {2, 3}
          /\ envelopePhase \in {1, 2}
          /\ Sgn(envelopeDuration') > 0
          /\ envelopeStartCutoff' # envelopeTargetCutoff' )
        => /\ envelopeCutoff' = envelopeTargetCutoff'
              => FGe(FSub(currentTime', envelopeStartTime'), envelopeDuration')
           /\ (envelopePhase = 2 /\ lastOp.op = "updateEnvelope")
              => FLe(FAbs(FSub(envelopeCutoff', envelopeTargetCutoff')),
                     FAbs(FSub(envelopeCutoff, envelopeTargetCutoff))) ]_vars

(* ---------------------------------- C4 --------------------------------- *)
\* C4: an updateEnvelope call made while the phase is Held leaves
\* envelopeCutoff, targetCutoff and the phase unchanged, and the call that
\* enters Held leaves envelopeCutoff and targetCutoff at the decay target.
\* (The host clock is monotonic: updateEnvelope is only offered times that
\* are not before currentTime.)
C4_HeldFrozen ==
    [][ IsCall("updateEnvelope")
        => /\ envelopePhase = 3
              => /\ envelopeCutoff' = envelopeCutoff
                 /\ targetCutoff' = targetCutoff
                 /\ envelopePhase' = 3
           /\ (envelopePhase = 2 /\ envelopePhase' = 3)
              => /\ envelopeCutoff' = envelopeTargetCutoff
                 /\ targetCutoff' = envelopeTargetCutoff ]_vars

\* updateEnvelope ran in Held on an envelope cutoff that setEnvelopeCutoff
\* had moved off the decay target, and left it there
C4_Witness ==
    /\ lastOp.op = "updateEnvelope"
    /\ envelopePhase = 3
    /\ envelopeCutoff # envelopeTargetCutoff
    /\ targetCutoff = envelopeCutoff

(* ---------------------------------- C5 --------------------------------- *)
AllZero(cells) == \A i \in DOMAIN cells : cells[i] = Z

\* C5: right after init(), whatever the state it was called in,
\* targetCutoff = 1000, targetResonance = 0.1, manualCutoff = 1000, the
\* envelope is inactive with phase Idle, and every element of stage, delay
\* and stageTanh is zero.
C5_InitDefaults ==
    lastOp.op = "init"
    => /\ targetCutoff = I(1000)
       /\ targetResonance = F(1, 10)
       /\ manualCutoff = I(1000)
       /\ envelopeActive = 0
       /\ envelopePhase = 0
       /\ AllZero(stage) /\ AllZero(delay) /\ AllZero(stageTanh)

(* ---------------------------------- C6 --------------------------------- *)
\* what a freshly loaded instance holds after init() and one filter() call
\* on a silent block
FreshCutoff    == smoothParameter(I(1000), I(1000), F(1, 10))
FreshResonance == smoothParameter(F(1, 10), F(1, 10), F(1, 10))

\* C6: whatever happened before, init() followed by filter() on an all-zero
\* input block leaves the output block, the live cutoff and resonance and
\* the DC-blocker state equal to those of a freshly loaded instance that
\* ran init() and filter() on an all-zero block.
C6_InitDeterministic ==
    [][ ( /\ lastOp.op = "init"
          /\ IsCall("filter")
          /\ inputBuffer = Silence )
        => /\ outputBuffer' = Silence
           /\ cutoff' = FreshCutoff
           /\ resonance' = FreshResonance
           /\ dcBlockInput' = Z
           /\ dcBlockOutput' = Z ]_vars

(* ---------------------------------- C7 --------------------------------- *)
\* C7: setEnvelopeActive(0) leaves targetCutoff equal to the argument of
\* the most recent setCutoff call (1000 if there was none; init itself
\* calls setCutoff(1000)) and the phase Idle, and an updateEnvelope call
\* made while the envelope is inactive leaves targetCutoff as it was.
C7_DeactivateRestoresManual ==
    [][ /\ (IsCall("setEnvelopeActive") /\ lastOp'.args = <<0>>)
           => /\ targetCutoff' = lastSetCutoff
              /\ envelopePhase' = 0
        /\ (IsCall("updateEnvelope") /\ envelopeActive = 0)
           => /\ targetCutoff' = targetCutoff
              /\ envelopePhase' = 0 ]_vars

\* the envelope was switched off in Decay after setCutoff(3000) had been
\* called while it was active
C7_Witness ==
    /\ lastOp = [op |-> "setEnvelopeActive", args |-> <<0>>]
    /\ lastSetCutoff = I(3000)
    /\ targetCutoff = I(3000)
    /\ envelopeStartCutoff = I(4000)
    /\ envelopeCutoff # I(3000)
    /\ envelopePhase = 0

(* ---------------------------------- C8 --------------------------------- *)
\* C8: setCutoff(c) always stores c in manualCutoff; with the envelope
\* inactive it sets targetCutoff to c, and with the envelope active it
\* leaves targetCutoff, envelopeCutoff, the phase and the envelope timing
\* fields unchanged.
C8_SetCutoffFrame ==
    [][ IsCall("setCutoff")
        => /\ manualCutoff' = lastOp'.args[1]
           /\ envelopeActive = 0 => targetCutoff' = lastOp'.args[1]
           /\ envelopeActive # 0
              => UNCHANGED <<targetCutoff, envelopeCutoff, envelopePhase,
                             timingVars, envelopeDecayTime,
                             envelopeSustainLevel, currentTime>> ]_vars

\* setCutoff was called in mid-attack and the target kept the envelope's value
C8_Witness ==
    /\ lastOp.op = "setCutoff"
    /\ envelopeActive = 1
    /\ envelopePhase = 1
    /\ manualCutoff = I(3000)
    /\ targetCutoff = I(2100)

(* ---------------------------------- C9 --------------------------------- *)
\* C9: whatever finite arguments the control calls were given (attack,
\* release or decay time 0 included), envelopeCutoff and targetCutoff are
\* finite.
C9_EnvelopeFinite ==
    IsFinite(envelopeCutoff) /\ IsFinite(targetCutoff)

(* ---------------------------------- C10 -------------------------------- *)
\* C10: setEnvelopeDecayTime and setEnvelopeSustainLevel change only their
\* own stored value; updateEnvelope copies the decay time into the segment
\* duration and uses the sustain level only on the call that takes Attack
\* to Decay, and on every other call leaves the segment's start, target,
\* start time and duration as they were.
C10_DecaySettersDeferred ==
    [][ /\ IsCall("setEnvelopeDecayTime")
           => /\ envelopeDecayTime' = lastOp'.args[1]
              /\ UNCHANGED <<bufVars, ladderVars, coefVars, liveVars,
                             targetCutoff, targetResonance, smoothVars, dcVars,
                             manualCutoff, envelopeCutoff, envelopeActive,
                             timingVars, envelopeSustainLevel, envelopePhase,
                             currentTime>>
        /\ IsCall("setEnvelopeSustainLevel")
           => /\ envelopeSustainLevel' = lastOp'.args[1]
              /\ UNCHANGED <<bufVars, ladderVars, coefVars, liveVars,
                             targetCutoff, targetResonance, smoothVars, dcVars,
                             manualCutoff, envelopeCutoff, envelopeActive,
                             timingVars, envelopeDecayTime, envelopePhase,
                             currentTime>>
        /\ IsCall("updateEnvelope")
           => IF envelopePhase = 1 /\ envelopePhase' = 2
                THEN /\ envelopeDuration' = envelopeDecayTime
                     /\ envelopeTargetCutoff' =
                          SustainCutoff(envelopeTargetCutoff, manualCutoff,
                                        envelopeSustainLevel)
                ELSE UNCHANGED timingVars ]_vars

\* the decay time was changed during a Decay, whose duration stayed
C10_Witness ==
    /\ lastOp.op = "setEnvelopeDecayTime"
    /\ envelopePhase = 2
    /\ envelopeDuration # envelopeDecayTime

\* C11: updateEnvelope called while the phase is Idle changes neither
\* targetCutoff, envelopeCutoff, the phase, the envelope start, target,
\* start-time and duration fields nor the derived coefficients; of the
\* kernel's state only the recorded current time may change.
C11_IdleUpdateNoOp ==
    [][(IsCall("updateEnvelope") /\ envelopePhase = 0) =>
         /\ UNCHANGED <<targetCutoff, envelopeCutoff, envelopePhase>>
         /\ UNCHANGED <<envelopeStartCutoff, envelopeTargetCutoff,
                        envelopeStartTime, envelopeDuration>>
         /\ UNCHANGED <<tune, acr, resQuad>>
         /\ UNCHANGED <<bufVars, ladderVars, liveVars, targetResonance,
                        smoothVars, dcVars, manualCutoff, envelopeActive,
                        envelopeDecayTime, envelopeSustainLevel>>
         /\ currentTime' = lastOp'.args[1]]_vars

\* an Idle envelope with release timing left behind saw the clock move
C11_Witness ==
    /\ lastOp.op = "updateEnvelope"
    /\ envelopePhase = 0
    /\ envelopeActive = 1
    /\ envelopeDuration = I(2)
    /\ envelopeTargetCutoff = I(500)
    /\ currentTime = I(3)

\* C12: init leaves tune, acr and resQuad equal to the coefficient mapping
\* of the live cutoff and resonance; every operation that starts from such
\* a state ends in one; and every operation that changes a live value ends
\* with the coefficients mapped from the new values.
C12_CoefficientsFollowLive ==
    [][LET mapped  == CoefficientsOf(cutoff, resonance)
           mapped2 == CoefficientsOf(cutoff', resonance')
           inSync  == /\ tune = mapped.tune
                      /\ acr = mapped.acr
                      /\ resQuad = mapped.resQuad
           inSync2 == /\ tune' = mapped2.tune
                      /\ acr' = mapped2.acr
                      /\ resQuad' = mapped2.resQuad
       IN  /\ IsCall("init") => inSync2
           /\ inSync => inSync2
           /\ (cutoff' # cutoff \/ resonance' # resonance) => inSync2]_vars

\* init was called after a block had moved the live cutoff off its default
C12_Witness ==
    /\ lastOp.op = "init"
    /\ nBlocks >= 1
    /\ cutoff = I(1200)
    /\ tune = CoefficientsOf(I(1200), resonance).tune
    /\ resQuad = CoefficientsOf(I(1200), resonance).resQuad

\* the operations C13 lists beside filter()
IsControlCall ==
    \/ IsCall("setCutoff") \/ IsCall("setResonance")
    \/ IsCall("setEnvelopeActive") \/ IsCall("setEnvelopeCutoff")
    \/ IsCall("setEnvelopeAttack") \/ IsCall("setEnvelopeRelease")
    \/ IsCall("updateEnvelope") \/ IsCall("init")

\* C13 as stated: only filter() writes the live cutoff and resonance, once
\* per call by the smoothing step, and the setters, the envelope triggers,
\* updateEnvelope and init change nothing but target, manual and envelope
\* fields. Violated: they also rewrite the derived coefficients, and init
\* clears the ladder state.
C13_OnlyControlFields ==
    [][/\ IsCall("filter") =>
            /\ cutoff' = FAdd(cutoff, FMul(FSub(targetCutoff, cutoff),
                                           cutoffSmoothing))
            /\ resonance' = FAdd(resonance,
                                 FMul(FSub(targetResonance, resonance),
                                      resonanceSmoothing))
       /\ IsControlCall =>
            UNCHANGED <<liveVars, bufVars, ladderVars, coefVars, smoothVars,
                        dcVars>>]_vars

\* C13, amended: only filter() writes the live cutoff and resonance, once
\* per call by the smoothing step; the setters, the envelope triggers,
\* updateEnvelope and init leave the live values, the buffers, the
\* smoothing factors and the DC-blocker state unchanged; beside target,
\* manual and envelope fields they change only the derived coefficients,
\* to the mapping of the unchanged live values, and (init alone) the ladder
\* state, to zero.
C13_LiveWrittenByFilter ==
    [][/\ IsCall("filter") =>
            /\ cutoff' = FAdd(cutoff, FMul(FSub(targetCutoff, cutoff),
                                           cutoffSmoothing))
            /\ resonance' = FAdd(resonance,
                                 FMul(FSub(targetResonance, resonance),
                                      resonanceSmoothing))
       /\ ~IsCall("filter") => UNCHANGED liveVars
       /\ IsControlCall =>
            /\ UNCHANGED <<liveVars, bufVars, smoothVars, dcVars>>
            /\ \/ UNCHANGED coefVars
               \/ /\ tune' = CoefficientsOf(cutoff, resonance).tune
                  /\ acr' = CoefficientsOf(cutoff, resonance).acr
                  /\ resQuad' = CoefficientsOf(cutoff, resonance).resQuad
            /\ \/ UNCHANGED ladderVars
               \/ /\ IsCall("init")
                  /\ AllZero(stage') /\ AllZero(delay') /\ AllZero(stageTanh')]_vars

\* updateEnvelope moved the target while the live cutoff was on its way
C13_Witness ==
    /\ lastOp.op = "updateEnvelope"
    /\ nBlocks = 1
    /\ cutoff = I(1110)
    /\ targetCutoff # I(2100)
    /\ envelopePhase = 2

\* C14: a filter() call never carries the live cutoff past the target: the
\* difference targetCutoff - cutoff keeps its sign, and its magnitude
\* after the block is 0.9 times its magnitude before (comparisons as the
\* floating-point ones, false on NaN).
C14_NoOvershoot ==
    [][IsCall("filter") =>
         LET before == FSub(targetCutoff, cutoff)
             after  == FSub(targetCutoff', cutoff')
             scaled == FMul(FAbs(before), F(9, 10))
         IN  /\ targetCutoff' = targetCutoff
             /\ FGe(before, I(0)) => FGe(after, I(0))
             /\ FLe(before, I(0)) => FLe(after, I(0))
             /\ FGe(FAbs(after), scaled) /\ FLe(FAbs(after), scaled)]_vars

\* C15: in every reachable state the normalised frequency from which tune,
\* acr and resQuad were last derived is at most 0.45, whatever the live
\* cutoff, values at or above 0.45 * SAMPLE_RATE and NaN included.
C15_FcClamped ==
    /\ FLe(tune.fc, F(45, 100))
    /\ FLe(acr.fc, F(45, 100))
    /\ FLe(resQuad.fc, F(45, 100))

\* the live cutoff is above 0.45 * 44100 = 19845 and the clamp is in force
C15_Witness ==
    /\ lastOp.op = "filter"
    /\ FGe(cutoff, I(19845))
    /\ tune.k = "coef" /\ tune.fc = F(45, 100)
    /\ resQuad.k = "coef" /\ resQuad.fc = F(45, 100)

\* stage, delay, stageTanh and the DC blocker all hold exactly 0.0
ZeroState ==
    /\ AllZero(stage) /\ AllZero(delay) /\ AllZero(stageTanh)
    /\ dcBlockInput = Z /\ dcBlockOutput = Z

\* C16: init on an instance that has processed no block leaves the zero
\* state, and filter() run in the zero state on an all-zero input block
\* writes an all-zero output block and ends in the zero state again, so
\* any number of consecutive zero blocks after init gives silence.
C16_ZeroFixedPoint ==
    [][/\ (IsCall("init") /\ nBlocks = 0) => ZeroState'
       /\ (IsCall("filter") /\ ZeroState /\ inputBuffer = Silence) =>
            /\ outputBuffer' = Silence
            /\ ZeroState']_vars

\* two zero blocks went through the initialised filter with its
\* coefficients computed, and left silence and the zero state
C16_Witness ==
    /\ lastOp.op = "filter"
    /\ nBlocks = 2
    /\ tune.k = "coef" /\ resQuad.k = "coef"
    /\ cutoff = I(1000) /\ resonance = F(1, 10)
    /\ inputBuffer = Silence /\ outputBuffer = Silence
    /\ ZeroState

\* C17: an updateEnvelope(time) call either keeps the phase or moves it
\* one step, Attack to Decay or Decay to Held, and moves it only when
\* (time - envelopeStartTime) / envelopeDuration >= 1 for the values the
\* call found; so Idle and Held are kept, and no call goes from Attack to
\* Held.
C17_OneTransitionPerCall ==
    [][IsCall("updateEnvelope") =>
         LET time     == lastOp'.args[1]
             elapsed  == FSub(time, envelopeStartTime)
             complete == FGe(FDiv(elapsed, envelopeDuration), I(1))
         IN  \/ envelopePhase' = envelopePhase
             \/ envelopePhase = 1 /\ envelopePhase' = 2 /\ complete
             \/ envelopePhase = 2 /\ envelopePhase' = 3 /\ complete]_vars

\* a call 3 s after an attack of 2 s with the default decay of 0.5 s:
\* the step spans both segments, yet the envelope is in Decay, not Held
C17_Witness ==
    /\ lastOp = [op |-> "updateEnvelope", args |-> <<I(3)>>]
    /\ envelopePhase = 2
    /\ envelopeStartTime = I(3)
    /\ envelopeDuration = F(1, 2)
    /\ envelopeStartCutoff = I(4000)

\* v lies between a and b, ends included
Between(v, a, b) ==
    \/ FLe(a, v) /\ FLe(v, b)
    \/ FLe(b, v) /\ FLe(v, a)

\* C18: while in Attack the envelope target is twice a requested peak; the
\* updateEnvelope call that moves Attack to Decay makes that target the
\* decay start and sets the decay target to
\* start + (manualCutoff - start) * (1 - sustainLevel), from the
\* manualCutoff and sustain level it finds; with the sustain level in
\* [0, 1] the decay target lies between the decay start and manualCutoff,
\* on the decay start at level 1 and on manualCutoff at level 0.
C18_DecayTarget ==
    [][/\ envelopePhase' = 1 =>
            envelopeTargetCutoff' \in {FMul(I(2), pk) : pk \in PeakArgs}
       /\ (IsCall("updateEnvelope") /\ envelopePhase = 1 /\ envelopePhase' = 2) =>
            /\ envelopeStartCutoff' = envelopeTargetCutoff
            /\ envelopeTargetCutoff' =
                  FAdd(envelopeTargetCutoff,
                       FMul(FSub(manualCutoff, envelopeTargetCutoff),
                            FSub(I(1), envelopeSustainLevel)))
            /\ (FLe(I(0), envelopeSustainLevel) /\ FLe(envelopeSustainLevel, I(1)))
                 => Between(envelopeTargetCutoff', envelopeTargetCutoff,
                            manualCutoff)
            /\ envelopeSustainLevel = I(1)
                 => envelopeTargetCutoff' = envelopeTargetCutoff
            /\ envelopeSustainLevel = I(0)
                 => envelopeTargetCutoff' = manualCutoff]_vars

\* Decay has just begun at the default sustain level 0.5 after
\* setCutoff(3000) changed the manual cutoff during Attack: the decay
\* target is midway between the attack target 4000 and 3000
C18_Witness ==
    /\ lastOp.op = "updateEnvelope"
    /\ envelopePhase = 2
    /\ envelopeStartTime = currentTime
    /\ envelopeSustainLevel = F(1, 2)
    /\ manualCutoff = I(3000)
    /\ envelopeStartCutoff = I(4000)
    /\ envelopeTargetCutoff = I(3500)

\* C19: the recorded current time is 0 on a loaded instance, becomes the
\* argument of each updateEnvelope call and 0 at init, and is otherwise
\* kept; setEnvelopeAttack(start, peak, T), in whatever state it is
\* called, leaves phase Attack, the envelope active, envelope start =
\* start, envelope target = 2 * peak, duration = T and phase start time =
\* that recorded time, and leaves targetCutoff, envelopeCutoff and
\* manualCutoff unchanged.
C19_AttackRestarts ==
    [][/\ IsCall("updateEnvelope") => currentTime' = lastOp'.args[1]
       /\ IsCall("init") => currentTime' = I(0)
       /\ ~(IsCall("updateEnvelope") \/ IsCall("init"))
            => currentTime' = currentTime
       /\ IsCall("setEnvelopeAttack") =>
            /\ envelopePhase' = 1
            /\ envelopeActive' = 1
            /\ envelopeStartCutoff' = lastOp'.args[1]
            /\ envelopeTargetCutoff' = FMul(I(2), lastOp'.args[2])
            /\ envelopeDuration' = lastOp'.args[3]
            /\ envelopeStartTime' = currentTime
            /\ UNCHANGED <<targetCutoff, envelopeCutoff, manualCutoff>>]_vars

\* an attack triggered at time 3 on a finished envelope that had been
\* deactivated: it is active again and the old target is still in place
C19_Witness ==
    /\ lastOp.op = "setEnvelopeAttack"
    /\ envelopePhase = 1 /\ envelopeActive = 1
    /\ envelopeStartTime = I(3) /\ currentTime = I(3)
    /\ envelopeStartCutoff = I(200) /\ envelopeTargetCutoff = I(4000)
    /\ envelopeCutoff = I(4000)
    /\ targetCutoff = I(3000)

\* C20: in every reachable state a phase of Attack, Decay or Held goes
\* with envelopeActive = 1; so an updateEnvelope call that gets past the
\* Idle return, and any that changes targetCutoff, runs with the envelope
\* active, and a call made while the envelope is inactive leaves
\* targetCutoff as it is.
C20_PhaseImpliesActive ==
    [][/\ envelopePhase' \in {1, 2, 3} => envelopeActive' = 1
       /\ (IsCall("updateEnvelope") /\ envelopePhase # 0)
            => envelopeActive = 1
       /\ (IsCall("updateEnvelope") /\ targetCutoff' # targetCutoff)
            => envelopeActive = 1
       /\ (IsCall("updateEnvelope") /\ envelopeActive = 0)
            => targetCutoff' = targetCutoff]_vars

\* an attack was triggered and the envelope deactivated; setCutoff(3000)
\* then set the target, and a later updateEnvelope left it alone
C20_Witness ==
    /\ lastOp = [op |-> "updateEnvelope", args |-> <<I(3)>>]
    /\ envelopeActive = 0 /\ envelopePhase = 0
    /\ envelopeTargetCutoff = I(4000) /\ envelopeDuration = I(2)
    /\ lastSetCutoff = I(3000)
    /\ targetCutoff = I(3000)

====
